---- MODULE Spec2Model ----
(***************************************************************************)
(* Model of Backend/Server.py: the four FastAPI handlers /ask, /speak,     *)
(* /evaluate-answer and /generate-questions, the three adapters they call  *)
(* (capture_voice_text, ask_together_ai, text_to_audio_bytes) and the      *)
(* company_profiles table.                                                 *)
(*                                                                         *)
(* A Python str is a sequence of tokens: a literal piece of an f-string is *)
(* one token, a text that comes from outside (request field, recognised    *)
(* speech, model output) is a sequence of word tokens.  An f-string is the *)
(* concatenation of its pieces.                                            *)
(*                                                                         *)
(* A handler is cut at its blocking calls: one action per call, and one    *)
(* for the return statement.  The local variables of a running handler are *)
(* a record that grows with every assignment, as a Python frame does.      *)
(***************************************************************************)
EXTENDS Naturals, Sequences, FiniteSets, TLC

VARIABLES
    company_profiles,   \* the module-level dict
    ep,                 \* per execution context: the route being served
    pc,                 \* per execution context: position in the handler
    request,            \* per execution context: the parsed request model
    locals,             \* per execution context: the handler's local variables
    response,           \* per execution context: the HTTP response produced
    trace,              \* per execution context: adapter calls made, in order
    log                 \* routes of the requests completed so far

vars == <<company_profiles, ep, pc, request, locals, response, trace, log>>

----------------------------------------------------------------------------
(* Bounds *)

MaxLen == 1         \* words in a question / answer text
MaxLog == 2         \* completed requests remembered in log
MaxInFlight == 2    \* execution contexts of the concurrent specification

----------------------------------------------------------------------------
(* Strings *)

Words == {"w1", "w2"}
Texts(n) == UNION {[1..k -> Words] : k \in 0..n}

\* needle occurs in hay as a contiguous piece
Contains(hay, needle) ==
    \E i \in 0..Len(hay) :
        /\ i + Len(needle) <= Len(hay)
        /\ \A j \in 1..Len(needle) : hay[i + j] = needle[j]

----------------------------------------------------------------------------
(* Schemas *)

\* a JSON body: a record over some of the given fields
Bodies(F) ==
    UNION {{b \in [D -> UNION {F[f] : f \in D}] : \A f \in D : b[f] \in F[f]}
              : D \in SUBSET (DOMAIN F)}

Field(body, name, default) == IF name \in DOMAIN body THEN body[name] ELSE default

QuestionRequest(body) ==
    [company |-> Field(body, "company", <<"General">>),
     role    |-> Field(body, "role", <<"Engineer">>)]

EvalRequestValid(body) == {"question", "answer"} \subseteq DOMAIN body

EvalRequest(body) ==
    [company  |-> Field(body, "company", <<"General">>),
     question |-> body["question"],
     answer   |-> body["answer"]]

----------------------------------------------------------------------------
(* Company profiles *)

CompanyProfilesInit ==
    (<<"Google">> :> <<"Focus on algorithms, system design, and problem-solving depth.">>)
 @@ (<<"Infosys">> :> <<"Practical coding, OOP basics, and database concepts.">>)
 @@ (<<"Microsoft">> :> <<"System design, product sense, and engineering trade-offs.">>)
 @@ (<<"TCS">> :> <<"Practical coding, aptitude questions, and basic problem-solving.">>)

\* variant of DictGet: get(key) without a default, None for a missing key
DictGet_NoDefault(d, key, default) == IF key \in DOMAIN d THEN d[key] ELSE <<"None">>

\* dict.get(key, default): the value
DictGet(d, key, default) == IF key \in DOMAIN d THEN d[key] ELSE default

\* variant of DictAfterGet: setdefault(key, default), which stores the default
DictAfterGet_SetDefault(d, key, default) ==
    IF key \in DOMAIN d THEN d ELSE (key :> default) @@ d

\* dict.get(key, default): the dict afterwards
DictAfterGet(d, key, default) == d

----------------------------------------------------------------------------
(* Helper functions *)

UnknownValueSentinel == <<"Sorry, I could not understand.">>
RequestErrorSentinel == <<"Speech recognition service failed.">>

\* What the microphone and the recognition service can do in one capture.
\* "OSError" stands for a failure of the input device itself (lines 49-51),
\* which no except clause covers.
CaptureOutcomes(utterances) ==
    [kind : {"recognized"}, text : utterances]
    \cup [kind : {"UnknownValueError", "RequestError", "OSError"}, text : {<<>>}]

\* variant of capture_raises: no except clause for RequestError
capture_raises_RequestError(outcome) == outcome.kind \notin {"recognized", "UnknownValueError"}

capture_raises(outcome) == outcome.kind \notin {"recognized", "UnknownValueError", "RequestError"}

capture_returns(outcome) ==
    CASE outcome.kind = "recognized"        -> outcome.text
      [] outcome.kind = "UnknownValueError" -> UnknownValueSentinel
      [] outcome.kind = "RequestError"      -> RequestErrorSentinel

\* What the completion service can do with a prompt: answer with some text
\* (a stub that echoes answers with the prompt itself) or fail.
CompletionOutcomes(prompt, replies, echo) ==
    [kind : {"content"}, text : replies \cup (IF echo THEN {prompt} ELSE {})]
    \cup [kind : {"APIError"}, text : {<<>>}]

together_raises(outcome) == outcome.kind # "content"

together_returns(outcome) == outcome.text

\* What the speech provider can do with a text.
SynthesisOutcomes == {"written", "gTTSError"}

gtts_raises(outcome) == outcome # "written"

\* the bytes gTTS writes for a text
Mp3(text) == [codec |-> "mp3", lang |-> "en", speech |-> text]
NoBytes == [codec |-> "mp3", lang |-> "en", speech |-> <<>>]

\* io.BytesIO after tts.write_to_fp(buf): the position is behind the bytes
write_to_fp(text) == [bytes |-> Mp3(text), pos |-> "end"]

\* variant of seek0: the seek is missing
seek0_Missing(buf) == buf

\* buf.seek(0)
seek0(buf) == [buf EXCEPT !.pos = "start"]

\* the buffer text_to_audio_bytes returns
gtts_returns(text) == seek0(write_to_fp(text))

\* what a reader of the buffer gets: the bytes from its position on
ReadFrom(buf) == IF buf.pos = "start" THEN buf.bytes ELSE NoBytes

----------------------------------------------------------------------------
(* Prompts *)

AskPrompt(req, voice_text) ==
    <<"You are interviewing for ">> \o req.role \o <<" at ">> \o req.company
        \o <<". Question: ">> \o voice_text

EvalDefaultStyle == <<"Balanced.">>

\* variant of EvalPrompt: the answer line repeats the question
EvalPrompt_NoAnswer(req, style) ==
    <<"Company: ">> \o req.company \o <<", Style: ">> \o style \o <<"\n">>
        \o <<"Question: ">> \o req.question \o <<"\n">>
        \o <<"Answer: ">> \o req.question \o <<"\n\n">>
        \o <<"Evaluate correctness (correct/partial/incorrect), clarity, and suggest improvement. ">>
        \o <<"Return JSON with fields correctness, explanation, improvements.">>

EvalPrompt(req, style) ==
    <<"Company: ">> \o req.company \o <<", Style: ">> \o style \o <<"\n">>
        \o <<"Question: ">> \o req.question \o <<"\n">>
        \o <<"Answer: ">> \o req.answer \o <<"\n\n">>
        \o <<"Evaluate correctness (correct/partial/incorrect), clarity, and suggest improvement. ">>
        \o <<"Return JSON with fields correctness, explanation, improvements.">>

QuestionsDefaultStyle == <<"Balanced technical + behavioral.">>

QuestionsPrompt(req, style) ==
    <<"Generate 5 interview questions for ">> \o req.role \o <<" role at ">>
        \o req.company \o <<". ">>
        \o <<"Company style: ">> \o style \o <<". ">>
        \o <<"Return JSON array with fields id, question, type, hint.">>

sample_text == <<"This is a demo speech reply.">>

----------------------------------------------------------------------------
(* Responses *)

NoResponse == [status |-> 0, media_type |-> "", body |-> <<>>]

\* the framework's answer to an exception that leaves a handler
InternalServerError ==
    [status |-> 500, media_type |-> "text/plain", body |-> <<"Internal Server Error">>]

\* the framework's answer to a body that does not fit the schema
UnprocessableEntity ==
    [status |-> 422, media_type |-> "application/json", body |-> [detail |-> <<"Field required">>]]

JSONResponse(content) == [status |-> 200, media_type |-> "application/json", body |-> content]

StreamingResponse(content, media_type) ==
    [status |-> 200, media_type |-> media_type, body |-> ReadFrom(content)]

\* variant of AskSynthesisText: ask_ai synthesizes the demo sentence
AskSynthesisText_Demo(l) == sample_text

\* text handed to text_to_audio_bytes by ask_ai
AskSynthesisText(l) == l.ai_reply

\* variant of AskReturn: user_speech is the whole prompt
AskReturn_Prompt(l) ==
    JSONResponse([user_speech    |-> l.prompt,
                  ai_reply_text  |-> l.ai_reply,
                  ai_reply_audio |-> <<"/speak">>])

AskReturn(l) ==
    JSONResponse([user_speech    |-> l.voice_text,
                  ai_reply_text  |-> l.ai_reply,
                  ai_reply_audio |-> <<"/speak">>])

SpeakReturn(l) == StreamingResponse(l.audio_buf, "audio/mpeg")

EvaluateReturn(l) == JSONResponse([evaluation |-> l.ai_eval])

\* variant of GenerateReturn: company and role change places
GenerateReturn_Swapped(req, l) ==
    JSONResponse([company |-> req.role, role |-> req.company, questions |-> l.questions])

GenerateReturn(req, l) ==
    JSONResponse([company |-> req.company, role |-> req.role, questions |-> l.questions])

----------------------------------------------------------------------------
(* Frames *)

NoLocals == [n \in {} |-> <<>>]
NoRequest == [n \in {} |-> <<>>]

\* assignment to a local variable
Bind(l, name, val) == [n \in DOMAIN l \cup {name} |-> IF n = name THEN val ELSE l[n]]

\* one adapter call: what it was given, what the outside did, what came back
Call(fn, arg, outcome, ok, result) ==
    [fn |-> fn, arg |-> arg, outcome |-> outcome, ok |-> ok, result |-> result]

\* the local variable that receives the completion in each handler
CompletionVar(route) ==
    CASE route = "/ask"                -> "ai_reply"
      [] route = "/evaluate-answer"    -> "ai_eval"
      [] route = "/generate-questions" -> "questions"

\* variant of AfterCompletion: ask_ai returns without synthesizing
AfterCompletion_NoSynthesis(route) == "return"

\* where a handler goes after the completion returned
AfterCompletion(route) == IF route = "/ask" THEN "text_to_audio_bytes" ELSE "return"

----------------------------------------------------------------------------
(* Environments: the inputs a specification draws from *)

KnownCompanies == DOMAIN CompanyProfilesInit

\* every key of the table, the schema default and a name outside the table
Rich ==
    [companies  |-> KnownCompanies \cup {<<"General">>, <<"Acme">>},
     roles      |-> {<<"SDE">>},
     questions  |-> Texts(MaxLen),
     answers    |-> Texts(MaxLen),
     utterances |-> {<<"w1">>},
     replies    |-> {<<"reply">>},
     echo       |-> TRUE,
     logCap     |-> MaxLog]

Narrow ==
    [companies  |-> {<<"Google">>, <<"Acme">>},
     roles      |-> {},
     questions  |-> {<<"w1">>},
     answers    |-> {<<"w2">>},
     utterances |-> {<<"w1">>},
     replies    |-> {<<"reply">>},
     echo       |-> FALSE,
     logCap     |-> 0]

QuestionBodies(E) == Bodies([company |-> E.companies, role |-> E.roles])

EvalBodies(E) ==
    Bodies([company |-> E.companies, question |-> E.questions, answer |-> E.answers])

----------------------------------------------------------------------------
(* Actions *)

shared == <<company_profiles, log>>

\* variant of Raise: the handler catches the exception and calls again
Raise_Retry(h, call) ==
    /\ trace' = [trace EXCEPT ![h] = Append(@, call)]
    /\ UNCHANGED <<pc, response, locals>>

\* the framework answers for a handler that raised
Raise(h, call) ==
    /\ trace' = [trace EXCEPT ![h] = Append(@, call)]
    /\ response' = [response EXCEPT ![h] = InternalServerError]
    /\ pc' = [pc EXCEPT ![h] = "done"]
    /\ UNCHANGED locals

\* POST /ask arrives: the body is parsed and ask_ai starts
ReceiveAsk(h, E) ==
    /\ pc[h] = "idle"
    /\ \E body \in QuestionBodies(E) :
          request' = [request EXCEPT ![h] = QuestionRequest(body)]
    /\ ep' = [ep EXCEPT ![h] = "/ask"]
    /\ pc' = [pc EXCEPT ![h] = "capture_voice_text"]
    /\ UNCHANGED <<locals, response, trace, shared>>

\* GET /speak arrives: whatever the request carries is ignored; line 95
ReceiveSpeak(h, E) ==
    /\ pc[h] = "idle"
    /\ \E body \in QuestionBodies(E) :
          request' = [request EXCEPT ![h] = NoRequest]
    /\ ep' = [ep EXCEPT ![h] = "/speak"]
    /\ locals' = [locals EXCEPT ![h] = Bind(@, "sample_text", sample_text)]
    /\ pc' = [pc EXCEPT ![h] = "text_to_audio_bytes"]
    /\ UNCHANGED <<response, trace, shared>>

\* POST /evaluate-answer arrives: a body without question or answer is
\* rejected before evaluate_answer runs
ReceiveEvaluate(h, E) ==
    /\ pc[h] = "idle"
    /\ ep' = [ep EXCEPT ![h] = "/evaluate-answer"]
    /\ \E body \in EvalBodies(E) :
          IF EvalRequestValid(body)
          THEN /\ request' = [request EXCEPT ![h] = EvalRequest(body)]
               /\ pc' = [pc EXCEPT ![h] = "company_profiles.get"]
               /\ UNCHANGED response
          ELSE /\ response' = [response EXCEPT ![h] = UnprocessableEntity]
               /\ pc' = [pc EXCEPT ![h] = "done"]
               /\ UNCHANGED request
    /\ UNCHANGED <<locals, trace, shared>>

\* POST /generate-questions arrives
ReceiveGenerate(h, E) ==
    /\ pc[h] = "idle"
    /\ \E body \in QuestionBodies(E) :
          request' = [request EXCEPT ![h] = QuestionRequest(body)]
    /\ ep' = [ep EXCEPT ![h] = "/generate-questions"]
    /\ pc' = [pc EXCEPT ![h] = "company_profiles.get"]
    /\ UNCHANGED <<locals, response, trace, shared>>

\* ask_ai line 80-81: capture_voice_text() and the prompt
capture_voice_text(h, E) ==
    /\ pc[h] = "capture_voice_text"
    /\ \E outcome \in CaptureOutcomes(E.utterances) :
          IF capture_raises(outcome)
          THEN Raise(h, Call("capture_voice_text", <<>>, outcome.kind, FALSE, <<>>))
          ELSE LET voice_text == capture_returns(outcome)
                   prompt == AskPrompt(request[h], voice_text)
               IN /\ locals' = [locals EXCEPT ![h] =
                                   Bind(Bind(@, "voice_text", voice_text), "prompt", prompt)]
                  /\ trace' = [trace EXCEPT ![h] =
                                   Append(@, Call("capture_voice_text", <<>>, outcome.kind, TRUE, voice_text))]
                  /\ pc' = [pc EXCEPT ![h] = "ask_together_ai"]
                  /\ UNCHANGED response
    /\ UNCHANGED <<ep, request, shared>>

\* evaluate_answer lines 104-111, generate_questions lines 120-125:
\* the style lookup and the prompt
company_profiles_get(h, E) ==
    /\ pc[h] = "company_profiles.get"
    /\ LET default == IF ep[h] = "/evaluate-answer" THEN EvalDefaultStyle
                                                  ELSE QuestionsDefaultStyle
           style == DictGet(company_profiles, request[h].company, default)
           prompt == IF ep[h] = "/evaluate-answer" THEN EvalPrompt(request[h], style)
                                                 ELSE QuestionsPrompt(request[h], style)
       IN /\ locals' = [locals EXCEPT ![h] = Bind(Bind(@, "style", style), "prompt", prompt)]
          /\ company_profiles' = DictAfterGet(company_profiles, request[h].company, default)
    /\ pc' = [pc EXCEPT ![h] = "ask_together_ai"]
    /\ UNCHANGED <<ep, request, response, trace, log>>

\* ask_together_ai(prompt), lines 61-66, and the assignment of its result
ask_together_ai(h, E) ==
    /\ pc[h] = "ask_together_ai"
    /\ LET prompt == locals[h].prompt
       IN \E outcome \in CompletionOutcomes(prompt, E.replies, E.echo) :
             IF together_raises(outcome)
             THEN Raise(h, Call("ask_together_ai", prompt, outcome.kind, FALSE, <<>>))
             ELSE LET content == together_returns(outcome)
                  IN /\ locals' = [locals EXCEPT ![h] = Bind(@, CompletionVar(ep[h]), content)]
                     /\ trace' = [trace EXCEPT ![h] =
                                      Append(@, Call("ask_together_ai", prompt, outcome.kind, TRUE, content))]
                     /\ pc' = [pc EXCEPT ![h] = AfterCompletion(ep[h])]
                     /\ UNCHANGED response
    /\ UNCHANGED <<ep, request, shared>>

\* text_to_audio_bytes(text), lines 68-73, called at line 83 or line 96
text_to_audio_bytes(h, E) ==
    /\ pc[h] = "text_to_audio_bytes"
    /\ LET text == IF ep[h] = "/ask" THEN AskSynthesisText(locals[h])
                                     ELSE locals[h].sample_text
       IN \E outcome \in SynthesisOutcomes :
             IF gtts_raises(outcome)
             THEN Raise(h, Call("text_to_audio_bytes", text, outcome, FALSE, <<>>))
             ELSE LET audio_buf == gtts_returns(text)
                  IN /\ locals' = [locals EXCEPT ![h] = Bind(@, "audio_buf", audio_buf)]
                     /\ trace' = [trace EXCEPT ![h] =
                                      Append(@, Call("text_to_audio_bytes", text, outcome, TRUE, audio_buf))]
                     /\ pc' = [pc EXCEPT ![h] = "return"]
                     /\ UNCHANGED response
    /\ UNCHANGED <<ep, request, shared>>

\* the return statement of the handler: lines 84-88, 97, 113, 127
Return(h, E) ==
    /\ pc[h] = "return"
    /\ response' = [response EXCEPT ![h] =
          CASE ep[h] = "/ask"                -> AskReturn(locals[h])
            [] ep[h] = "/speak"              -> SpeakReturn(locals[h])
            [] ep[h] = "/evaluate-answer"    -> EvaluateReturn(locals[h])
            [] ep[h] = "/generate-questions" -> GenerateReturn(request[h], locals[h])]
    /\ pc' = [pc EXCEPT ![h] = "done"]
    /\ UNCHANGED <<ep, request, locals, trace, shared>>

\* the response is sent; request and frame are dropped
Close(h, E) ==
    /\ pc[h] = "done"
    /\ log' = IF Len(log) < E.logCap
              THEN Append(log, [route |-> ep[h], status |-> response[h].status])
              ELSE log
    /\ pc' = [pc EXCEPT ![h] = "idle"]
    /\ ep' = [ep EXCEPT ![h] = ""]
    /\ request' = [request EXCEPT ![h] = NoRequest]
    /\ locals' = [locals EXCEPT ![h] = NoLocals]
    /\ response' = [response EXCEPT ![h] = NoResponse]
    /\ trace' = [trace EXCEPT ![h] = <<>>]
    /\ UNCHANGED company_profiles

Step(h, E) ==
    \/ ReceiveAsk(h, E)
    \/ ReceiveSpeak(h, E)
    \/ ReceiveEvaluate(h, E)
    \/ ReceiveGenerate(h, E)
    \/ capture_voice_text(h, E)
    \/ company_profiles_get(h, E)
    \/ ask_together_ai(h, E)
    \/ text_to_audio_bytes(h, E)
    \/ Return(h, E)
    \/ Close(h, E)

InitOver(H) ==
    /\ company_profiles = CompanyProfilesInit
    /\ ep = [h \in H |-> ""]
    /\ pc = [h \in H |-> "idle"]
    /\ request = [h \in H |-> NoRequest]
    /\ locals = [h \in H |-> NoLocals]
    /\ response = [h \in H |-> NoResponse]
    /\ trace = [h \in H |-> <<>>]
    /\ log = <<>>

----------------------------------------------------------------------------
(* The server as the code runs it: the handlers are coroutines without an  *)
(* await, so the event loop runs one request to its end before the next.   *)

Handlers == DOMAIN pc

Init == InitOver({1})

Next == \E h \in {1} : Step(h, Rich)

Spec == Init /\ [][Next]_vars

(* The same handlers on several execution contexts whose steps interleave. *)

InitConcurrent == InitOver(1..MaxInFlight)

NextConcurrent == \E h \in 1..MaxInFlight : Step(h, Narrow)

SpecConcurrent == InitConcurrent /\ [][NextConcurrent]_vars

----------------------------------------------------------------------------
(* Properties *)

Done(h) == pc[h] = "done"

\* the calls of adapter fn that context h has made, as positions of its trace
CallsOf(h, fn) == {i \in 1..Len(trace[h]) : trace[h][i].fn = fn}

FailedCalls(h) == {i \in 1..Len(trace[h]) : ~trace[h][i].ok}

C1_StyleOf(route, company) ==
    CASE company = <<"Google">> ->
            <<"Focus on algorithms, system design, and problem-solving depth.">>
      [] company = <<"Infosys">> ->
            <<"Practical coding, OOP basics, and database concepts.">>
      [] company = <<"Microsoft">> ->
            <<"System design, product sense, and engineering trade-offs.">>
      [] company = <<"TCS">> ->
            <<"Practical coding, aptitude questions, and basic problem-solving.">>
      [] OTHER -> IF route = "/evaluate-answer"
                  THEN <<"Balanced.">>
                  ELSE <<"Balanced technical + behavioral.">>

C1_StyleInPrompt(route, prompt, style) ==
    IF route = "/evaluate-answer"
    THEN Contains(prompt, <<", Style: ">> \o style \o <<"\n">>)
    ELSE Contains(prompt, <<"Company style: ">> \o style \o <<". ">>)

\* C1: a company that is no key of the profile table gets the style
\* "Balanced." in the prompt of /evaluate-answer and the style
\* "Balanced technical + behavioral." in the prompt of /generate-questions;
\* a company that is a key gets the table's entry, in both.
C1_FallbackStyle ==
    \A h \in Handlers :
        ep[h] \in {"/evaluate-answer", "/generate-questions"} =>
            /\ "style" \in DOMAIN locals[h] =>
                  locals[h].style = C1_StyleOf(ep[h], request[h].company)
            /\ \A i \in CallsOf(h, "ask_together_ai") :
                  /\ C1_StyleInPrompt(ep[h], trace[h][i].arg,
                                      C1_StyleOf(ep[h], request[h].company))
                  /\ \A c \in KnownCompanies :
                        c # request[h].company =>
                            ~C1_StyleInPrompt(ep[h], trace[h][i].arg, CompanyProfilesInit[c])

\* an /evaluate-answer request for the schema default company has sent its
\* prompt, after a /generate-questions request was served
C1_Witness ==
    \E h \in Handlers :
        /\ ep[h] = "/evaluate-answer"
        /\ CallsOf(h, "ask_together_ai") # {}
        /\ request[h].company = <<"General">>
        /\ \E k \in 1..Len(log) : log[k].route = "/generate-questions"

C2_Sentinel(kind) ==
    IF kind = "UnknownValueError" THEN <<"Sorry, I could not understand.">>
                                  ELSE <<"Speech recognition service failed.">>

\* C2: a recognition error in /ask is turned into a transcript, not into an
\* error status: UnknownValueError gives "Sorry, I could not understand.",
\* RequestError gives "Speech recognition service failed."; the handler goes
\* on to the completion, and when completion and synthesis succeed the
\* response is a success whose user_speech is that sentence.
C2_RecognitionErrorRecovered ==
    \A h \in Handlers :
        (/\ ep[h] = "/ask"
         /\ Len(trace[h]) >= 1
         /\ trace[h][1].outcome \in {"UnknownValueError", "RequestError"}) =>
            LET sentinel == C2_Sentinel(trace[h][1].outcome)
            IN /\ trace[h][1].ok
               /\ trace[h][1].result = sentinel
               /\ locals[h].voice_text = sentinel
               /\ pc[h] # "capture_voice_text"
               /\ Len(trace[h]) = 1 => pc[h] = "ask_together_ai"
               /\ Len(trace[h]) >= 2 =>
                     Contains(trace[h][2].arg, <<". Question: ">> \o sentinel)
               /\ response[h].status = 500 => FailedCalls(h) # {}
               /\ (Done(h) /\ FailedCalls(h) = {}) =>
                     /\ response[h].status = 200
                     /\ response[h].body.user_speech = sentinel

\* an /ask whose recogniser reported UnknownValueError has been answered 200
C2_Witness ==
    \E h \in Handlers :
        /\ ep[h] = "/ask"
        /\ Done(h)
        /\ response[h].status = 200
        /\ trace[h][1].outcome = "UnknownValueError"

\* C3: a failure of the completion call or of the synthesis call is not
\* caught and not retried: the failed call is the last call of the request
\* and the only call of that adapter, the request is done with the
\* framework's 500 response (no domain body), also when the completion
\* before a failed synthesis had succeeded.
C3_UpstreamErrorPropagates ==
    \A h \in Handlers :
        \A i \in FailedCalls(h) :
            trace[h][i].fn \in {"ask_together_ai", "text_to_audio_bytes"} =>
                /\ i = Len(trace[h])
                /\ Cardinality(CallsOf(h, trace[h][i].fn)) = 1
                /\ Done(h)
                /\ response[h].status = 500
                /\ response[h].media_type = "text/plain"
                /\ response[h].body = <<"Internal Server Error">>
                /\ (ep[h] = "/ask" /\ trace[h][i].fn = "ask_together_ai") =>
                      CallsOf(h, "text_to_audio_bytes") = {}

\* the synthesis of an /ask failed after its completion had succeeded
C3_Witness ==
    \E h \in Handlers :
        /\ ep[h] = "/ask"
        /\ Len(trace[h]) = 3
        /\ trace[h][2].ok /\ trace[h][2].fn = "ask_together_ai"
        /\ ~trace[h][3].ok /\ trace[h][3].fn = "text_to_audio_bytes"
        /\ response[h].status = 500

\* C4 as stated: the text /ask hands to synthesis is the demo sentence and
\* not the completion's reply, and the audio is in no response of /ask.
C4_AskSynthesizesDemoText ==
    \A h \in Handlers :
        ep[h] = "/ask" =>
            \A i \in CallsOf(h, "text_to_audio_bytes") :
                /\ trace[h][i].arg = <<"This is a demo speech reply.">>
                /\ trace[h][i].arg # locals[h].ai_reply

\* C4, amended: the text /ask hands to synthesis is the completion's reply;
\* the audio made from it is in no response of /ask, whose ai_reply_audio is
\* only the path "/speak"; and what /speak synthesizes is the demo sentence,
\* never that reply.
C4_AskAudioDiscarded ==
    \A h \in Handlers :
        /\ ep[h] = "/ask" =>
              /\ \A i \in CallsOf(h, "text_to_audio_bytes") :
                    /\ i = 3
                    /\ trace[h][2].fn = "ask_together_ai"
                    /\ trace[h][i].arg = trace[h][2].result
              /\ (Done(h) /\ response[h].status = 200) =>
                    /\ DOMAIN response[h].body =
                          {"user_speech", "ai_reply_text", "ai_reply_audio"}
                    /\ response[h].body.ai_reply_audio = <<"/speak">>
                    /\ response[h].media_type = "application/json"
                    /\ trace[h][3].ok
                    /\ trace[h][3].result.bytes = Mp3(response[h].body.ai_reply_text)
        /\ ep[h] = "/speak" =>
              \A i \in CallsOf(h, "text_to_audio_bytes") :
                  trace[h][i].arg = <<"This is a demo speech reply.">>

\* an /ask was answered 200 after synthesizing a reply of the model
C4_Witness ==
    \E h \in Handlers :
        /\ ep[h] = "/ask"
        /\ Done(h)
        /\ response[h].status = 200
        /\ trace[h][3].arg = <<"reply">>

\* C5: every successful /speak response has media type audio/mpeg and
\* carries the audio of the sentence "This is a demo speech reply.", the only
\* text /speak hands to synthesis, whatever was requested or answered before.
C5_SpeakIsDemoAudio ==
    \A h \in Handlers :
        ep[h] = "/speak" =>
            /\ \A i \in CallsOf(h, "text_to_audio_bytes") :
                  trace[h][i].arg = <<"This is a demo speech reply.">>
            /\ CallsOf(h, "ask_together_ai") = {}
            /\ (Done(h) /\ response[h].status = 200) =>
                  /\ response[h].media_type = "audio/mpeg"
                  /\ response[h].body =
                        [codec |-> "mp3", lang |-> "en",
                         speech |-> <<"This is a demo speech reply.">>]

\* a /speak was answered 200 after an /ask had been answered 200
C5_Witness ==
    \E h \in Handlers :
        /\ ep[h] = "/speak"
        /\ Done(h)
        /\ response[h].status = 200
        /\ \E k \in 1..Len(log) : log[k] = [route |-> "/ask", status |-> 200]

\* C6: every response /ask returns has ai_reply_audio = "/speak"; its
\* user_speech is what speech capture returned and its ai_reply_text is what
\* the completion client returned, for every company, role and transcript.
C6_AskResponseShape ==
    \A h \in Handlers :
        (ep[h] = "/ask" /\ Done(h)) =>
            \/ /\ response[h].status = 500
               /\ FailedCalls(h) # {}
            \/ /\ response[h].status = 200
               /\ FailedCalls(h) = {}
               /\ response[h].body.ai_reply_audio = <<"/speak">>
               /\ trace[h][1].fn = "capture_voice_text"
               /\ response[h].body.user_speech = trace[h][1].result
               /\ trace[h][2].fn = "ask_together_ai"
               /\ response[h].body.ai_reply_text = trace[h][2].result

\* an /ask for a company outside the table, with a recognised transcript,
\* was answered 200
C6_Witness ==
    \E h \in Handlers :
        /\ ep[h] = "/ask"
        /\ Done(h)
        /\ response[h].status = 200
        /\ request[h].company = <<"Acme">>
        /\ trace[h][1].outcome = "recognized"

\* C7: /evaluate-answer returns the completion's text unchanged as the only
\* field, evaluation; when the completion client returns its prompt, that
\* field contains the request's question, answer and company and the style
\* chosen for the company.
C7_EvaluationEchoesPrompt ==
    \A h \in Handlers :
        (ep[h] = "/evaluate-answer" /\ Done(h) /\ response[h].status = 200) =>
            /\ DOMAIN response[h].body = {"evaluation"}
            /\ Len(trace[h]) = 1
            /\ response[h].body.evaluation = trace[h][1].result
            /\ trace[h][1].result = trace[h][1].arg =>
                  LET evaluation == response[h].body.evaluation
                  IN /\ Contains(evaluation,
                                 <<"Question: ">> \o request[h].question \o <<"\n">>)
                     /\ Contains(evaluation,
                                 <<"Answer: ">> \o request[h].answer \o <<"\n\n">>)
                     /\ Contains(evaluation,
                                 <<"Company: ">> \o request[h].company \o <<", Style: ">>
                                    \o C1_StyleOf(ep[h], request[h].company))

\* an /evaluate-answer with different, non-empty question and answer was
\* answered by an echoing completion client
C7_Witness ==
    \E h \in Handlers :
        /\ ep[h] = "/evaluate-answer"
        /\ Done(h)
        /\ response[h].status = 200
        /\ trace[h][1].result = trace[h][1].arg
        /\ request[h].question # <<>>
        /\ request[h].answer # <<>>
        /\ request[h].question # request[h].answer

\* C8: a successful /generate-questions response has the request's company
\* and role and, as questions, the completion's text unchanged.
C8_GenerateEchoesRequest ==
    \A h \in Handlers :
        (ep[h] = "/generate-questions" /\ Done(h) /\ response[h].status = 200) =>
            /\ DOMAIN response[h].body = {"company", "role", "questions"}
            /\ response[h].body.company = request[h].company
            /\ response[h].body.role = request[h].role
            /\ Len(trace[h]) = 1
            /\ response[h].body.questions = trace[h][1].result
            /\ Contains(trace[h][1].arg,
                        <<"Generate 5 interview questions for ">> \o response[h].body.role \o <<" role at ">>
                           \o response[h].body.company \o <<". ">>)

\* a /generate-questions for a company outside the table was answered 200
C8_Witness ==
    \E h \in Handlers :
        /\ ep[h] = "/generate-questions"
        /\ Done(h)
        /\ response[h].status = 200
        /\ request[h].company = <<"Acme">>
        /\ request[h].role = <<"SDE">>
        /\ locals[h].style = <<"Balanced technical + behavioral.">>

C9_AskOrder == <<"capture_voice_text", "ask_together_ai", "text_to_audio_bytes">>

\* C9: an /ask calls capture, completion and synthesis in that order, each
\* at most once, each after the one before it returned; the prompt of the
\* completion embeds the request's role and company and the transcript; a
\* response comes only after synthesis returned.  /evaluate-answer and
\* /generate-questions call the completion once per successful request and
\* nothing else.
C9_CallOrder ==
    \A h \in Handlers :
        /\ ep[h] = "/ask" =>
              /\ Len(trace[h]) <= 3
              /\ \A i \in 1..Len(trace[h]) :
                    /\ trace[h][i].fn = C9_AskOrder[i]
                    /\ i > 1 => trace[h][i - 1].ok
              /\ Len(trace[h]) >= 2 =>
                    trace[h][2].arg =
                        <<"You are interviewing for ">> \o request[h].role \o <<" at ">>
                           \o request[h].company \o <<". Question: ">>
                           \o trace[h][1].result
              /\ (pc[h] = "return" \/ response[h].status = 200) =>
                    (Len(trace[h]) = 3 /\ trace[h][3].ok)
              /\ response[h].status \in {0, 200, 500}
        /\ ep[h] \in {"/evaluate-answer", "/generate-questions"} =>
              /\ Len(trace[h]) <= 1
              /\ \A i \in 1..Len(trace[h]) : trace[h][i].fn = "ask_together_ai"
              /\ (pc[h] = "return" \/ response[h].status = 200) =>
                    (Len(trace[h]) = 1 /\ trace[h][1].ok)

\* an /ask has made its three calls and is about to return
C9_Witness ==
    \E h \in Handlers :
        /\ ep[h] = "/ask"
        /\ pc[h] = "return"
        /\ Len(trace[h]) = 3

C10_Table ==
    (<<"Google">> :> <<"Focus on algorithms, system design, and problem-solving depth.">>)
 @@ (<<"Infosys">> :> <<"Practical coding, OOP basics, and database concepts.">>)
 @@ (<<"Microsoft">> :> <<"System design, product sense, and engineering trade-offs.">>)
 @@ (<<"TCS">> :> <<"Practical coding, aptitude questions, and basic problem-solving.">>)

C10_Json(body) == [status |-> 200, media_type |-> "application/json", body |-> body]

C10_Error ==
    [status |-> 500, media_type |-> "text/plain", body |-> <<"Internal Server Error">>]

\* the response of a finished request, from its request and its calls alone
C10_OwnResponse(route, req, calls) ==
    IF \E i \in 1..Len(calls) : ~calls[i].ok THEN C10_Error
    ELSE CASE route = "/ask" ->
                 C10_Json([user_speech    |-> calls[1].result,
                           ai_reply_text  |-> calls[2].result,
                           ai_reply_audio |-> <<"/speak">>])
           [] route = "/speak" ->
                 [status |-> 200, media_type |-> "audio/mpeg",
                  body |-> [codec |-> "mp3", lang |-> "en",
                            speech |-> <<"This is a demo speech reply.">>]]
           [] route = "/evaluate-answer" ->
                 IF calls = <<>>
                 THEN [status |-> 422, media_type |-> "application/json",
                       body |-> [detail |-> <<"Field required">>]]
                 ELSE C10_Json([evaluation |-> calls[1].result])
           [] route = "/generate-questions" ->
                 C10_Json([company   |-> req.company,
                           role      |-> req.role,
                           questions |-> calls[1].result])

\* C10: however the requests interleave, the company profile table keeps
\* its four entries, and what a request sends and answers is fixed by its own
\* request and by what its own calls returned.
C10_NoSharedState ==
    /\ company_profiles = C10_Table
    /\ \A h \in Handlers :
          /\ Done(h) => response[h] = C10_OwnResponse(ep[h], request[h], trace[h])
          /\ ep[h] \in {"/evaluate-answer", "/generate-questions"} =>
                \A i \in CallsOf(h, "ask_together_ai") :
                    C1_StyleInPrompt(ep[h], trace[h][i].arg,
                                     C1_StyleOf(ep[h], request[h].company))

\* an /evaluate-answer for a company outside the table was answered while a
\* /generate-questions for the same company was past its lookup on another
\* context
C10_Witness ==
    \E h1, h2 \in Handlers :
        /\ h1 # h2
        /\ ep[h1] = "/evaluate-answer"
        /\ Done(h1)
        /\ response[h1].status = 200
        /\ request[h1].company = <<"Acme">>
        /\ ep[h2] = "/generate-questions"
        /\ request[h2].company = <<"Acme">>
        /\ CallsOf(h2, "ask_together_ai") # {}

====
